---- MODULE Spec2Model ----
(***************************************************************************)
(* llm-cli: the command-line front end (main) and its Markdown-to-ANSI     *)
(* renderer (RenderMarkdown, renderLine, renderInlineFormatting).          *)
(*                                                                         *)
(* A Go string is modelled as a sequence of one-byte characters; each      *)
(* character is a TLA+ string of its own ("a", "*", "ESC", "NL", ...).     *)
(***************************************************************************)
EXTENDS Integers, Sequences, FiniteSets, TLC

----------------------------------------------------------------------------
(* Characters *)

ESC == "ESC"      \* the byte \033
NL  == "NL"       \* the byte \n
BT  == "BT"       \* the backtick

Digits    == {"0", "1", "2", "3", "4", "5", "6", "7", "8", "9"}
Letters   == {"a", "b", "c", "d", "e", "f", "h", "i", "l", "m", "o", "p", "r", "s",
              "t", "u", "x", "T"}
WordChars == Digits \cup Letters \cup {"_"}

----------------------------------------------------------------------------
(* ANSI escape codes for terminal formatting *)

Reset     == <<ESC, "[", "0", "m">>
Bold      == <<ESC, "[", "1", "m">>
Italic    == <<ESC, "[", "3", "m">>
Underline == <<ESC, "[", "4", "m">>
Red       == <<ESC, "[", "3", "1", "m">>
Green     == <<ESC, "[", "3", "2", "m">>
Yellow    == <<ESC, "[", "3", "3", "m">>
Blue      == <<ESC, "[", "3", "4", "m">>
Magenta   == <<ESC, "[", "3", "5", "m">>
Cyan      == <<ESC, "[", "3", "6", "m">>

\* "• " as Go holds it: the three UTF-8 bytes of U+2022, then a space
BulletDot == <<"xE2", "x80", "xA2", " ">>

----------------------------------------------------------------------------
(* package strings *)

HasPrefix(s, prefix) ==
    /\ Len(s) >= Len(prefix)
    /\ SubSeq(s, 1, Len(prefix)) = prefix

HasSuffix(s, suffix) ==
    /\ Len(s) >= Len(suffix)
    /\ SubSeq(s, Len(s) - Len(suffix) + 1, Len(s)) = suffix

TrimPrefix(s, prefix) ==
    IF HasPrefix(s, prefix) THEN SubSeq(s, Len(prefix) + 1, Len(s)) ELSE s

TrimSuffix(s, suffix) ==
    IF HasSuffix(s, suffix) THEN SubSeq(s, 1, Len(s) - Len(suffix)) ELSE s

\* strings.Split(s, "\n"): the pieces between the separators, at least one
RECURSIVE SplitFrom(_, _, _)
SplitFrom(s, i, cur) ==
    IF i > Len(s) THEN <<cur>>
    ELSE IF s[i] = NL THEN <<cur>> \o SplitFrom(s, i + 1, <<>>)
    ELSE SplitFrom(s, i + 1, Append(cur, s[i]))

Split(s) == SplitFrom(s, 1, <<>>)

\* strings.TrimSpace: leading and trailing white space removed
WhiteSpace == {" ", NL, "TAB", "CR"}

RECURSIVE TrimLeft(_)
TrimLeft(s) == IF s # <<>> /\ Head(s) \in WhiteSpace THEN TrimLeft(Tail(s)) ELSE s

RECURSIVE TrimRight(_)
TrimRight(s) ==
    IF s # <<>> /\ s[Len(s)] \in WhiteSpace THEN TrimRight(SubSeq(s, 1, Len(s) - 1)) ELSE s

TrimSpace(s) == TrimRight(TrimLeft(s))

----------------------------------------------------------------------------
(* package regexp: the patterns the renderer compiles, as sequences of     *)
(* elements, matched leftmost-first with backtracking as Go does.          *)

Lit(s)       == [kind |-> "lit", s |-> s, neg |-> FALSE, set |-> {}]
LazyNot(X)   == [kind |-> "lazy", s |-> <<>>, neg |-> TRUE, set |-> X]     \* [^X]*?
OneOf(X)     == [kind |-> "one", s |-> <<>>, neg |-> FALSE, set |-> X]     \* [X]
StarOf(X)    == [kind |-> "star", s |-> <<>>, neg |-> FALSE, set |-> X]    \* [X]*
StarNot(X)   == [kind |-> "star", s |-> <<>>, neg |-> TRUE, set |-> X]     \* [^X]*

InClass(c, e) == (c \in e.set) # e.neg

HasAt(text, i, s) ==
    /\ i + Len(s) - 1 <= Len(text)
    /\ SubSeq(text, i, i + Len(s) - 1) = s

\* The preferred match of elements k.. of pat at position i of text: the start
\* position of each of those elements followed by the end of the match (the
\* index after its last character), or <<>> when there is none.
RECURSIVE MatchAt(_, _, _, _)
MatchAt(pat, k, text, i) ==
    IF k > Len(pat) THEN <<i>>
    ELSE LET e == pat[k] IN
      CASE e.kind = "lit" ->
             IF HasAt(text, i, e.s)
             THEN LET r == MatchAt(pat, k + 1, text, i + Len(e.s))
                  IN IF r = <<>> THEN <<>> ELSE <<i>> \o r
             ELSE <<>>
        [] e.kind = "one" ->
             IF i <= Len(text) /\ InClass(text[i], e)
             THEN LET r == MatchAt(pat, k + 1, text, i + 1)
                  IN IF r = <<>> THEN <<>> ELSE <<i>> \o r
             ELSE <<>>
        [] e.kind = "lazy" ->
             \* fewest repetitions first
             LET r == MatchAt(pat, k + 1, text, i) IN
             IF r # <<>> THEN <<i>> \o r
             ELSE IF i <= Len(text) /\ InClass(text[i], e)
             THEN LET r2 == MatchAt(pat, k, text, i + 1)
                  IN IF r2 = <<>> THEN <<>> ELSE <<i>> \o Tail(r2)
             ELSE <<>>
        [] e.kind = "star" ->
             \* most repetitions first
             LET more == IF i <= Len(text) /\ InClass(text[i], e)
                         THEN MatchAt(pat, k, text, i + 1) ELSE <<>>
             IN IF more # <<>> THEN <<i>> \o Tail(more)
                ELSE LET r == MatchAt(pat, k + 1, text, i)
                     IN IF r = <<>> THEN <<>> ELSE <<i>> \o r

\* The leftmost match that starts at or after position i
RECURSIVE FindFrom(_, _, _)
FindFrom(pat, text, i) ==
    IF i > Len(text) THEN <<>>
    ELSE LET m == MatchAt(pat, 1, text, i)
         IN IF m # <<>> THEN m ELSE FindFrom(pat, text, i + 1)

\* The text of the capture group that spans element g of the pattern
Group(text, m, g) == SubSeq(text, m[g], m[g + 1] - 1)

\* Regexp.Expand: in the template, "$" followed by the longest run of letters,
\* digits and underscores names a group; a name that is no group expands to "".
RECURSIVE NameLen(_, _)
NameLen(tmpl, i) ==
    IF i <= Len(tmpl) /\ tmpl[i] \in WordChars THEN 1 + NameLen(tmpl, i + 1) ELSE 0

RECURSIVE ExpandFrom(_, _, _)
ExpandFrom(tmpl, i, g1) ==
    IF i > Len(tmpl) THEN <<>>
    ELSE IF tmpl[i] = "$" /\ NameLen(tmpl, i + 1) > 0
    THEN LET n == NameLen(tmpl, i + 1) IN
         (IF SubSeq(tmpl, i + 1, i + n) = <<"1">> THEN g1 ELSE <<>>)
           \o ExpandFrom(tmpl, i + n + 1, g1)
    ELSE <<tmpl[i]>> \o ExpandFrom(tmpl, i + 1, g1)

Expand(tmpl, g1) == ExpandFrom(tmpl, 1, g1)

\* Regexp.ReplaceAllString for a pattern whose group 1 is its element 2: every
\* non-overlapping match, left to right, replaced by the expanded template.
RECURSIVE ReplaceAllFrom(_, _, _, _)
ReplaceAllFrom(pat, text, i, tmpl) ==
    LET m == FindFrom(pat, text, i) IN
    IF m = <<>> THEN SubSeq(text, i, Len(text))
    ELSE SubSeq(text, i, m[1] - 1)
           \o Expand(tmpl, Group(text, m, 2))
           \o ReplaceAllFrom(pat, text, m[Len(m)], tmpl)

ReplaceAllString(pat, text, tmpl) == ReplaceAllFrom(pat, text, 1, tmpl)

----------------------------------------------------------------------------
(* The renderer's patterns *)

boldRe    == <<Lit(<<"*", "*">>), LazyNot({"*", NL}), Lit(<<"*", "*">>)>>
boldRe2   == <<Lit(<<"_", "_">>), LazyNot({"_", NL}), Lit(<<"_", "_">>)>>
italicRe  == <<Lit(<<"*">>), LazyNot({"*", NL}), Lit(<<"*">>)>>
italicRe2 == <<Lit(<<"_">>), LazyNot({"_", NL}), Lit(<<"_">>)>>
codeRe    == <<Lit(<<BT>>), LazyNot({BT, NL}), Lit(<<BT>>)>>
linkRe    == <<Lit(<<"[">>), LazyNot({"]", NL}), Lit(<<"]", "(">>),
               LazyNot({")", NL}), Lit(<<")">>)>>
\* ^(\d+\. )(.*) ; the anchor is the caller's: it is only tried at position 1
numberedRe == <<OneOf(Digits), StarOf(Digits), Lit(<<".", " ">>), StarNot({NL})>>

Group1 == <<"$", "1">>

\* faulty variant: the italic substitutions made before the bold ones
spansRenderedItalicFirst(text) ==
    LET t1 == ReplaceAllString(italicRe, text, Italic \o Group1 \o Reset)
        t2 == ReplaceAllString(italicRe2, t1, Italic \o Group1 \o Reset)
        t3 == ReplaceAllString(boldRe, t2, Bold \o Group1 \o Reset)
        t4 == ReplaceAllString(boldRe2, t3, Bold \o Group1 \o Reset)
    IN  ReplaceAllString(codeRe, t4, Cyan \o Group1 \o Reset)

\* the text after the bold, italic and inline-code substitutions
spansRendered(text) ==
    LET t1 == ReplaceAllString(boldRe, text, Bold \o Group1 \o Reset)
        t2 == ReplaceAllString(boldRe2, t1, Bold \o Group1 \o Reset)
        t3 == ReplaceAllString(italicRe, t2, Italic \o Group1 \o Reset)
        t4 == ReplaceAllString(italicRe2, t3, Italic \o Group1 \o Reset)
    IN  ReplaceAllString(codeRe, t4, Cyan \o Group1 \o Reset)

\* faulty variant: the link's replacement ends without Reset
renderInlineFormattingOpenLink(text) ==
    ReplaceAllString(linkRe, spansRendered(text), Blue \o Underline \o Group1)

renderInlineFormatting(text) ==
    ReplaceAllString(linkRe, spansRendered(text), Blue \o Underline \o Group1 \o Reset)

H3 == <<"#", "#", "#", " ">>
H2 == <<"#", "#", " ">>
H1 == <<"#", " ">>
Fence == <<BT, BT, BT>>
Dash == <<"-", " ">>
Star == <<"*", " ">>

\* faulty variant: the bullet marker forgotten
renderLineBareBullet(line) ==
    IF HasPrefix(line, H3) THEN Yellow \o Bold \o TrimPrefix(line, H3) \o Reset
    ELSE IF HasPrefix(line, H2) THEN Blue \o Bold \o TrimPrefix(line, H2) \o Reset
    ELSE IF HasPrefix(line, H1) THEN Magenta \o Bold \o TrimPrefix(line, H1) \o Reset
    ELSE IF HasPrefix(line, Fence) THEN Cyan \o line \o Reset
    ELSE IF HasPrefix(line, Dash) \/ HasPrefix(line, Star)
    THEN TrimPrefix(TrimPrefix(line, Dash), Star)
    ELSE LET m == MatchAt(numberedRe, 1, line, 1) IN
         IF m # <<>>
         THEN Yellow \o SubSeq(line, m[1], m[4] - 1) \o Reset
                \o SubSeq(line, m[4], m[5] - 1)
         ELSE renderInlineFormatting(line)

\* faulty variant: heading text passed through the inline substitutions
renderLineInlineHeadings(line) ==
    IF HasPrefix(line, H3)
    THEN Yellow \o Bold \o renderInlineFormatting(TrimPrefix(line, H3)) \o Reset
    ELSE IF HasPrefix(line, H2)
    THEN Blue \o Bold \o renderInlineFormatting(TrimPrefix(line, H2)) \o Reset
    ELSE IF HasPrefix(line, H1)
    THEN Magenta \o Bold \o renderInlineFormatting(TrimPrefix(line, H1)) \o Reset
    ELSE IF HasPrefix(line, Fence) THEN Cyan \o line \o Reset
    ELSE IF HasPrefix(line, Dash) \/ HasPrefix(line, Star)
    THEN Green \o BulletDot \o Reset \o TrimPrefix(TrimPrefix(line, Dash), Star)
    ELSE LET m == MatchAt(numberedRe, 1, line, 1) IN
         IF m # <<>>
         THEN Yellow \o SubSeq(line, m[1], m[4] - 1) \o Reset
                \o SubSeq(line, m[4], m[5] - 1)
         ELSE renderInlineFormatting(line)

renderLine(line) ==
    IF HasPrefix(line, H3) THEN Yellow \o Bold \o TrimPrefix(line, H3) \o Reset
    ELSE IF HasPrefix(line, H2) THEN Blue \o Bold \o TrimPrefix(line, H2) \o Reset
    ELSE IF HasPrefix(line, H1) THEN Magenta \o Bold \o TrimPrefix(line, H1) \o Reset
    ELSE IF HasPrefix(line, Fence) THEN Cyan \o line \o Reset
    ELSE IF HasPrefix(line, Dash) \/ HasPrefix(line, Star)
    THEN Green \o BulletDot \o Reset \o TrimPrefix(TrimPrefix(line, Dash), Star)
    ELSE LET m == MatchAt(numberedRe, 1, line, 1) IN
         IF m # <<>>
         THEN Yellow \o SubSeq(line, m[1], m[4] - 1) \o Reset
                \o SubSeq(line, m[4], m[5] - 1)
         ELSE renderInlineFormatting(line)

RECURSIVE WriteLines(_, _)
WriteLines(lines, k) ==
    IF k > Len(lines) THEN <<>>
    ELSE renderLine(lines[k]) \o <<NL>> \o WriteLines(lines, k + 1)

\* faulty variant: the newline after the last line left in place
RenderMarkdownNoTrim(text) == WriteLines(Split(text), 1)

\* faulty variant: a fence line opens or closes a code block whose lines are all
\* rendered as code
RECURSIVE WriteLinesFenced(_, _, _)
WriteLinesFenced(lines, k, inCode) ==
    IF k > Len(lines) THEN <<>>
    ELSE (IF inCode /\ ~HasPrefix(lines[k], Fence)
          THEN Cyan \o lines[k] \o Reset
          ELSE renderLine(lines[k]))
           \o <<NL>>
           \o WriteLinesFenced(lines, k + 1, inCode # HasPrefix(lines[k], Fence))

RenderMarkdownFenced(text) == TrimSuffix(WriteLinesFenced(Split(text), 1, FALSE), <<NL>>)

RenderMarkdown(text) == TrimSuffix(WriteLines(Split(text), 1), <<NL>>)

----------------------------------------------------------------------------
(* Bounds and input domains of the renderer *)

MaxFrags      == 3    \* fragments in a free-form document
MaxText       == 2    \* characters in the text of a single span
MaxTargetFrags == 2   \* fragments in a link target
MaxTargetLen  == 10   \* characters in a long link target
MaxPre        == 2    \* fragments before a link

RECURSIVE Flatten(_)
Flatten(ss) == IF ss = <<>> THEN <<>> ELSE Head(ss) \o Flatten(Tail(ss))

SeqsUpTo(S, n) == UNION { [1..k -> S] : k \in 0..n }

RECURSIVE Repeat(_, _)
Repeat(c, n) == IF n = 0 THEN <<>> ELSE <<c>> \o Repeat(c, n - 1)

\* free-form documents: every sequence of these fragments
Fragments ==
    { <<"a">>, <<" ">>, <<NL>>,
      <<"*">>, <<"_">>, <<BT>>, <<"[">>, <<"]">>, <<")">>,
      <<"*", "*">>, <<"_", "_">>, <<"]", "(">>,
      H1, H2, H3, Fence, Dash, Star, <<"1", ".", " ">> }

IsFragDoc(d) == \E n \in 0..MaxFrags : \E fs \in [1..n -> Fragments] : d = Flatten(fs)

\* single spans, terminated and unterminated, around a plain text
PlainChars == {"a", " ", "."}
PlainTexts == SeqsUpTo(PlainChars, MaxText)

Openers == { <<"*", "*">>, <<"_", "_">>, <<"*">>, <<"_">>, <<BT>> }

TargetFrags == { <<"a">>, <<"*">>, <<"_">>, <<BT>>, <<"[">>, <<"]">>, <<"(">> }
Targets ==
    { Flatten(fs) : fs \in SeqsUpTo(TargetFrags, MaxTargetFrags) }
      \cup { Repeat("a", n) : n \in 0..MaxTargetLen }

IsSpanDoc(d) ==
    \/ \E o \in Openers, t \in PlainTexts, c \in {<<>>} \cup Openers : d = o \o t \o c
    \/ \E t \in PlainTexts, u \in Targets, c \in {<<>>, <<")">>} :
          d = <<"[">> \o t \o <<"]", "(">> \o u \o c

\* a link among other spans
PreFrags == { <<"a">>, <<"*">>, <<"_">>, <<BT>>, <<"[">>, <<"]">>, <<"(">>, <<")">>,
              <<"*", "*">>, <<"_", "_">> }
IsMixDoc(d) ==
    \E n \in 0..MaxPre : \E pre \in [1..n -> PreFrags] :
      \E l \in {<<>>, <<"a">>, <<"*">>},
         u \in {<<>>, <<"a">>, <<"*">>, <<BT>>},
         post \in {<<>>, <<"*">>, <<BT>>} :
        d = Flatten(pre) \o <<"[">> \o l \o <<"]", "(">> \o u \o <<")">> \o post

\* the examples of the specification's section 8
NestedExample == <<"*", "*", "a", " ", "*", "b", "*", " ", "c", "*", "*">>
Examples ==
    { NestedExample,
      <<"*", "*", "b", "o", "l", "d", "*", "*">>,
      <<"*", "i", "t", "a", "l", "i", "c", "*">>,
      <<"#", " ", "T", "i", "t", "l", "e">>,
      <<"-", " ", "i", "t", "e", "m">>,
      <<"1", ".", " ", "f", "i", "r", "s", "t">>,
      <<BT, "c", "o", "d", "e", BT>>,
      <<"[", "l", "a", "b", "e", "l", "]", "(", "h", "t", "t", "p", ":", "/", "/", "x", ")">>,
      <<"*", "o", "o", "p", "s">>,
      <<"-", " ", "*", "*", "x", "*", "*">>,
      <<"2", ".", " ", "*", "*", "x", "*", "*">>,
      \* near the ordered-list prefix
      <<"1", ".", NL>>, <<"1", ".", "a">>, <<"1", " ", ".", " ", "a">>,
      <<"a", "1", ".", " ", "b">>, <<" ", "1", ".", " ", "a">>,
      <<"1", "2", ".", " ", "a">>, <<".", " ", "a">>,
      \* near the link form
      <<"[", "a", "]", " ", "(", "b", ")">>, <<"(", "a", ")", "[", "b", "]">> }

IsDocument(d) == IsFragDoc(d) \/ IsSpanDoc(d) \/ IsMixDoc(d) \/ d \in Examples

----------------------------------------------------------------------------
(* Bounds and input domains of the program *)

MaxArgs == 2          \* command-line arguments after the program name

ArgTokens == {"-h", "--help", "-v", "--version", "-c", "--code", "-x", "--explain",
              "--", "-z", "ls"}

EnvVars == {"ANTHROPIC_API_KEY", "OPENAI_API_KEY", "OLLAMA_MODEL"}

\* the completion texts a provider may send
RawTexts ==
    { <<>>, <<" ">>, <<NL>>, <<"l", "s">>, <<" ", "l", "s", NL>>,
      <<"*", "*", "a", "*", "*">>, <<"#", " ", "a", NL, "-", " ", "b">>,
      <<"[", "a", "]", "(", "u", ")">> }

\* what the HTTP exchange of a query function comes to: a failure before the
\* completion is extracted, or a decoded body with its list of texts
HTTPFailures == {"failed to make request", "failed to read response",
                 "API request failed with status", "failed to parse response",
                 "API error"}

Replies ==
    [kind : HTTPFailures, texts : {<<>>}]
      \cup [kind : {"body"}, texts : {<<>>} \cup {<<t>> : t \in RawTexts}]

----------------------------------------------------------------------------
(* package flag, as main uses it *)

\* the flag a command-line argument names, or "" for an argument that is no flag
FlagName(arg) ==
    CASE arg = "-h" -> "h"                [] arg = "--help" -> "help"
      [] arg = "-v" -> "v"                [] arg = "--version" -> "version"
      [] arg = "-c" -> "c"                [] arg = "--code" -> "code"
      [] arg = "-x" -> "x"                [] arg = "--explain" -> "explain"
      [] arg = "-z" -> "z"
      [] OTHER -> ""

\* FlagSet.Parse over the flags main defines: the values of the two booleans,
\* the remaining arguments, and nil, ErrHelp or the undefined-flag error
RECURSIVE FlagParse(_, _, _)
FlagParse(arguments, code, explain) ==
    IF arguments = <<>>
    THEN [codeMode |-> code, explainMode |-> explain, rest |-> <<>>, err |-> "nil"]
    ELSE LET arg == Head(arguments) IN
      IF arg = "--"
      THEN [codeMode |-> code, explainMode |-> explain, rest |-> Tail(arguments),
            err |-> "nil"]
      ELSE IF FlagName(arg) = ""
      THEN [codeMode |-> code, explainMode |-> explain, rest |-> arguments,
            err |-> "nil"]
      ELSE IF FlagName(arg) \in {"c", "code"}
      THEN FlagParse(Tail(arguments), TRUE, explain)
      ELSE IF FlagName(arg) \in {"x", "explain"}
      THEN FlagParse(Tail(arguments), code, TRUE)
      ELSE IF FlagName(arg) \in {"h", "help"}
      THEN [codeMode |-> code, explainMode |-> explain, rest |-> Tail(arguments),
            err |-> "ErrHelp"]
      ELSE [codeMode |-> code, explainMode |-> explain, rest |-> Tail(arguments),
            err |-> "flag provided but not defined"]

----------------------------------------------------------------------------
(* The provider functions *)

determineAPIProvider(environ) ==
    IF "ANTHROPIC_API_KEY" \in environ
    THEN [provider |-> "Claude", apiKey |-> "ANTHROPIC_API_KEY", err |-> "nil"]
    ELSE IF "OPENAI_API_KEY" \in environ
    THEN [provider |-> "OpenAI", apiKey |-> "OPENAI_API_KEY", err |-> "nil"]
    ELSE IF "OLLAMA_MODEL" \in environ
    THEN [provider |-> "Ollama", apiKey |-> "OLLAMA_MODEL", err |-> "nil"]
    ELSE [provider |-> "Claude", apiKey |-> "", err |-> "no API key or Ollama model found"]

Failed(e) == [response |-> <<>>, err |-> e]
Returned(r) == [response |-> r, err |-> "nil"]

queryClaudeAPI(reply) ==
    IF reply.kind # "body" THEN Failed(reply.kind)
    ELSE IF Len(reply.texts) = 0 THEN Failed("no content in response")
    ELSE IF TrimSpace(reply.texts[1]) = <<>> THEN Failed("empty response from API")
    ELSE Returned(TrimSpace(reply.texts[1]))

queryOpenAIAPI(reply) ==
    IF reply.kind # "body" THEN Failed(reply.kind)
    ELSE IF Len(reply.texts) = 0 THEN Failed("no choices in response")
    ELSE IF TrimSpace(reply.texts[1]) = <<>> THEN Failed("empty response from API")
    ELSE Returned(TrimSpace(reply.texts[1]))

\* the response field of the decoded body is "" when the body carries none
queryOllamaAPI(reply) ==
    LET text == IF Len(reply.texts) = 0 THEN <<>> ELSE reply.texts[1] IN
    IF reply.kind # "body" THEN Failed(reply.kind)
    ELSE IF text = <<>> THEN Failed("empty response from API")
    ELSE Returned(TrimSpace(text))

----------------------------------------------------------------------------
(* State *)

VARIABLES
    pc,            \* where main, or the renderer's caller, stands
    args,          \* os.Args[1:]
    env,           \* the environment variables that are set and not empty
    provider,      \* main's provider
    err,           \* main's err
    codeMode,      \* main's flags
    explainMode,
    renderAsMd,
    prompt,        \* which of the three prompts main built
    requests,      \* the provider requests issued, in order
    received,      \* what the provider request came back with
    response,      \* main's response
    stdout,        \* what was written to standard output
    stderr,        \* what was written to standard error
    exitCode,      \* the process's exit status, -1 while it runs
    markdown,      \* RenderMarkdown's argument
    rendered       \* RenderMarkdown's result

vars == <<pc, args, env, provider, err, codeMode, explainMode, renderAsMd, prompt,
          requests, received, response, stdout, stderr, exitCode, markdown,
          rendered>>

mainVars == <<args, env, provider, err, codeMode, explainMode, renderAsMd, prompt,
              requests, received, response, stdout, stderr, exitCode>>

\* what printUsage and the version line write, as single tokens
UsageText   == <<"USAGE">>
VersionText == <<"llm version">>
\* a line written to standard error, by its leading text
ErrLine(e)  == <<"Error: ", e, NL>>
SetupHint   == <<"Set one of the following environment variables", NL>>

Println(s) == s \o <<NL>>

\* before any request has come back
NoReply == [kind |-> "none", texts |-> <<>>]

MainIdle ==
    /\ provider = "Claude"
    /\ err = "nil"
    /\ codeMode = FALSE
    /\ explainMode = FALSE
    /\ renderAsMd = FALSE
    /\ prompt = ""
    /\ requests = <<>>
    /\ received = NoReply
    /\ response = <<>>
    /\ stdout = <<>>
    /\ stderr = <<>>
    /\ exitCode = -1

----------------------------------------------------------------------------
(* main *)

Init ==
    /\ pc = "main"
    /\ \E n \in 0..MaxArgs : args \in [1..n -> ArgTokens]
    /\ env \in SUBSET EnvVars
    /\ MainIdle
    /\ markdown = <<>>
    /\ rendered = <<>>

Exit(code) == pc' = "exit" /\ exitCode' = code

\* if len(os.Args) < 2 { printUsage(); os.Exit(1) }
CheckArgs ==
    /\ pc = "main"
    /\ IF Len(args) < 1
       THEN /\ stdout' = stdout \o UsageText
            /\ Exit(1)
       ELSE /\ pc' = "provider"
            /\ UNCHANGED <<stdout, exitCode>>
    /\ UNCHANGED <<args, env, provider, err, codeMode, explainMode, renderAsMd, prompt,
                   requests, received, response, stderr, markdown, rendered>>

\* provider, apiKey, err := determineAPIProvider(); on an error, report and exit 1
DetermineProvider ==
    /\ pc = "provider"
    /\ LET d == determineAPIProvider(env) IN
       /\ provider' = d.provider
       /\ err' = d.err
       /\ IF d.err # "nil"
          THEN /\ stderr' = stderr \o ErrLine(d.err) \o SetupHint
               /\ Exit(1)
          ELSE /\ pc' = "helpversion"
               /\ UNCHANGED <<stderr, exitCode>>
    /\ UNCHANGED <<args, env, codeMode, explainMode, renderAsMd, prompt, requests, received,
                   response, stdout, markdown, rendered>>

\* the help and version flags, looked for in os.Args[1] only
HelpVersion ==
    /\ pc = "helpversion"
    /\ IF args[1] \in {"--help", "-h"}
       THEN /\ stdout' = stdout \o UsageText
            /\ Exit(0)
       ELSE IF args[1] \in {"--version", "-v"}
       THEN /\ stdout' = stdout \o Println(VersionText)
            /\ Exit(0)
       ELSE /\ pc' = "parse"
            /\ UNCHANGED <<stdout, exitCode>>
    /\ UNCHANGED <<args, env, provider, err, codeMode, explainMode, renderAsMd, prompt,
                   requests, received, response, stderr, markdown, rendered>>

\* err = flagSet.Parse(os.Args[1:]) with flag.ExitOnError: -h and --help past
\* the first flags print the usage and exit (0, or 2 before Go 1.15); an
\* undefined flag is reported, the usage printed, exit 2
ParseFlags ==
    /\ pc = "parse"
    /\ LET f == FlagParse(args, FALSE, FALSE) IN
       /\ codeMode' = f.codeMode
       /\ explainMode' = f.explainMode
       /\ CASE f.err = "nil" ->
                 /\ pc' = "prompt"
                 /\ UNCHANGED <<stdout, stderr, exitCode>>
            [] f.err = "ErrHelp" ->
                 /\ stdout' = stdout \o UsageText
                 /\ \E code \in {0, 2} : Exit(code)
                 /\ UNCHANGED stderr
            [] OTHER ->
                 /\ stderr' = stderr \o <<f.err, NL>>
                 /\ stdout' = stdout \o UsageText
                 /\ Exit(2)
    /\ UNCHANGED <<args, env, provider, err, renderAsMd, prompt, requests, received, response,
                   markdown, rendered>>

\* faulty variant: the explain flag tested before the code flag
BuildPromptExplainFirst ==
    /\ pc = "prompt"
    /\ IF explainMode
       THEN prompt' = "explain" /\ renderAsMd' = TRUE
       ELSE IF codeMode
       THEN prompt' = "code" /\ renderAsMd' = FALSE
       ELSE prompt' = "command" /\ renderAsMd' = TRUE
    /\ pc' = "query"
    /\ UNCHANGED <<args, env, provider, err, codeMode, explainMode, requests, received, response,
                   stdout, stderr, exitCode, markdown, rendered>>

\* the prompt of the mode, and whether the completion is rendered
BuildPrompt ==
    /\ pc = "prompt"
    /\ IF codeMode
       THEN prompt' = "code" /\ renderAsMd' = FALSE
       ELSE IF explainMode
       THEN prompt' = "explain" /\ renderAsMd' = TRUE
       ELSE prompt' = "command" /\ renderAsMd' = TRUE
    /\ pc' = "query"
    /\ UNCHANGED <<args, env, provider, err, codeMode, explainMode, requests, received, response,
                   stdout, stderr, exitCode, markdown, rendered>>

\* faulty variant: the error is reported but the process does not exit
QueryNoExit ==
    /\ pc = "query"
    /\ \E reply \in Replies :
         LET q == CASE provider = "Claude" -> queryClaudeAPI(reply)
                    [] provider = "OpenAI" -> queryOpenAIAPI(reply)
                    [] provider = "Ollama" -> queryOllamaAPI(reply)
         IN /\ requests' = Append(requests, provider)
            /\ received' = reply
            /\ response' = q.response
            /\ err' = q.err
            /\ stderr' = IF q.err # "nil" THEN stderr \o ErrLine(q.err) ELSE stderr
            /\ pc' = "output"
            /\ UNCHANGED exitCode
    /\ UNCHANGED <<args, env, provider, codeMode, explainMode, renderAsMd, prompt,
                   stdout, markdown, rendered>>

\* switch provider { ... }: one call of the provider's query function, then
\* if err != nil { report; os.Exit(1) }
Query ==
    /\ pc = "query"
    /\ \E reply \in Replies :
         LET q == CASE provider = "Claude" -> queryClaudeAPI(reply)
                    [] provider = "OpenAI" -> queryOpenAIAPI(reply)
                    [] provider = "Ollama" -> queryOllamaAPI(reply)
         IN /\ requests' = Append(requests, provider)
            /\ received' = reply
            /\ response' = q.response
            /\ err' = q.err
            /\ IF q.err # "nil"
               THEN /\ stderr' = stderr \o ErrLine(q.err)
                    /\ Exit(1)
               ELSE /\ pc' = "output"
                    /\ UNCHANGED <<stderr, exitCode>>
    /\ UNCHANGED <<args, env, provider, codeMode, explainMode, renderAsMd, prompt,
                   stdout, markdown, rendered>>

\* if renderAsMd { fmt.Println(RenderMarkdown(response)) } else { fmt.Println(response) }
Output ==
    /\ pc = "output"
    /\ IF renderAsMd
       THEN stdout' = stdout \o Println(RenderMarkdown(response))
       ELSE stdout' = stdout \o Println(response)
    /\ Exit(0)
    /\ UNCHANGED <<args, env, provider, err, codeMode, explainMode, renderAsMd, prompt,
                   requests, received, response, stderr, markdown, rendered>>

Next ==
    \/ CheckArgs
    \/ DetermineProvider
    \/ HelpVersion
    \/ ParseFlags
    \/ BuildPrompt
    \/ Query
    \/ Output

Spec == Init /\ [][Next]_vars

----------------------------------------------------------------------------
(* RenderMarkdown on its own: every document of the input domain rendered   *)

InitRender ==
    /\ pc = "render"
    /\ args = <<>>
    /\ env = {}
    /\ MainIdle
    /\ IsDocument(markdown)
    /\ rendered = <<>>

Render ==
    /\ pc = "render"
    /\ rendered' = RenderMarkdown(markdown)
    /\ pc' = "rendered"
    /\ UNCHANGED markdown
    /\ UNCHANGED mainVars

NextRender == Render

SpecRender == InitRender /\ [][NextRender]_vars

----------------------------------------------------------------------------
(* Vocabulary of the properties *)

StyleCodes == {Bold, Italic, Underline, Red, Green, Yellow, Blue, Magenta, Cyan}

MetaChars == {"*", "_", BT, "#", "-", "[", "]", "(", ")"}

NoMeta(s) == \A i \in 1..Len(s) : s[i] \notin MetaChars

Has(s, c) == \E i \in 1..Len(s) : s[i] = c

Count(s, c) == Cardinality({i \in 1..Len(s) : s[i] = c})

Occurrences(s, sub) == {i \in 1..Len(s) : HasAt(s, i, sub)}

Contains(s, sub) == Occurrences(s, sub) # {}

\* one or more digits, a period, a space
DigitsDotSpace(line) ==
    \E n \in 1..Len(line) :
      /\ \A j \in 1..n : line[j] \in Digits
      /\ n + 2 <= Len(line)
      /\ line[n + 1] = "."
      /\ line[n + 2] = " "

IsPlainDocument(s) ==
    /\ NoMeta(s)
    /\ \A i \in 1..Len(Split(s)) : ~DigitsDotSpace(Split(s)[i])

\* the text of a single span: non-empty, free of metacharacters and newline,
\* not beginning with a space
IsSpanText(t) == Len(t) >= 1 /\ NoMeta(t) /\ ~Has(t, NL) /\ t[1] # " "

Wrapped(d, o, c) == Len(d) > Len(o) + Len(c) /\ HasPrefix(d, o) /\ HasSuffix(d, c)
Inner(d, o, c) == SubSeq(d, Len(o) + 1, Len(d) - Len(c))

FirstIndex(s, c) == IF Has(s, c) THEN CHOOSE i \in 1..Len(s) :
                                        s[i] = c /\ \A j \in 1..(i - 1) : s[j] # c
                    ELSE 0

\* d = "[" t "](" u close, with t free of "]"
IsLinkForm(d, close) ==
    LET p == FirstIndex(d, "]") IN
    /\ Len(d) >= 3 + Len(close)
    /\ d[1] = "["
    /\ p > 1
    /\ p + 1 <= Len(d) - Len(close)
    /\ d[p + 1] = "("
    /\ HasSuffix(d, close)
LinkLabel(d) == SubSeq(d, 2, FirstIndex(d, "]") - 1)
LinkTarget(d, close) == SubSeq(d, FirstIndex(d, "]") + 2, Len(d) - Len(close))

RECURSIVE JoinLines(_)
JoinLines(ls) ==
    IF Len(ls) = 0 THEN <<>>
    ELSE IF Len(ls) = 1 THEN ls[1]
    ELSE ls[1] \o <<NL>> \o JoinLines(Tail(ls))

Done == pc = "rendered"

----------------------------------------------------------------------------
(* C1. Nested-delimiter precedence: "**a *b* c**" renders as                *)
(* Bold "a " Italic "b" Reset " c" Reset.                                   *)
NestedPrecedence ==
    (Done /\ markdown = NestedExample) =>
      rendered = Bold \o <<"a", " ">> \o Italic \o <<"b">> \o Reset
                   \o <<" ", "c">> \o Reset

(* C2. Single-span rendering table: a line that is exactly one span around  *)
(* a span text t renders as the span's style, t, Reset; for a link          *)
(* "[t](u)", with u free of ")" and newline, as Blue Underline t Reset.     *)
SpanCase(o, c, style) ==
    (Wrapped(markdown, o, c) /\ IsSpanText(Inner(markdown, o, c))) =>
      rendered = style \o Inner(markdown, o, c) \o Reset

SingleSpanTable ==
    Done =>
      /\ SpanCase(<<"*", "*">>, <<"*", "*">>, Bold)
      /\ SpanCase(<<"_", "_">>, <<"_", "_">>, Bold)
      /\ SpanCase(<<"*">>, <<"*">>, Italic)
      /\ SpanCase(<<"_">>, <<"_">>, Italic)
      /\ SpanCase(<<BT>>, <<BT>>, Cyan)
      /\ (/\ IsLinkForm(markdown, <<")">>)
          /\ IsSpanText(LinkLabel(markdown))
          /\ ~Has(LinkTarget(markdown, <<")">>), ")")
          /\ ~Has(LinkTarget(markdown, <<")">>), NL))
           => rendered = Blue \o Underline \o LinkLabel(markdown) \o Reset

SingleSpanWitness ==
    /\ Done
    /\ IsLinkForm(markdown, <<")">>)
    /\ IsSpanText(LinkLabel(markdown))
    /\ Count(LinkTarget(markdown, <<")">>), "_") = 2
    /\ ~Has(LinkTarget(markdown, <<")">>), ")")
    /\ rendered = Blue \o Underline \o LinkLabel(markdown) \o Reset

(* C3. Identity on plain text: a document with no metacharacter and no line *)
(* that starts with digits-period-space is rendered as itself.              *)
PlainTextIdentity ==
    (Done /\ IsPlainDocument(markdown)) => rendered = markdown

PlainTextWitness ==
    /\ Done
    /\ IsPlainDocument(markdown)
    /\ Len(markdown) = 3
    /\ markdown[1] \in Digits
    /\ markdown[2] = "."
    /\ markdown[3] = NL
    /\ rendered = markdown

(* C4. List-item bodies receive inline-span transformation: the text after  *)
(* a bullet prefix or an ordered-list prefix appears in the output as       *)
(* renderInlineFormatting(body).                                            *)
ListBodiesInline ==
    Done =>
      \A i \in 1..Len(Split(markdown)) :
        LET line == Split(markdown)[i]
            out  == Split(rendered)[i]
            m    == MatchAt(numberedRe, 1, line, 1)
        IN  /\ (HasPrefix(line, Dash) \/ HasPrefix(line, Star))
                 => out = Green \o BulletDot \o Reset
                            \o renderInlineFormatting(SubSeq(line, 3, Len(line)))
            /\ (m # <<>>)
                 => out = Yellow \o SubSeq(line, 1, m[4] - 1) \o Reset
                            \o renderInlineFormatting(SubSeq(line, m[4], Len(line)))

(* C5. Line independence: the output is the renderings of the input's lines *)
(* joined by newlines, has as many newlines as the input, and each line     *)
(* renders as it does alone.                                                *)
LineIndependence ==
    Done =>
      LET ls == Split(markdown)
          alone == [i \in 1..Len(ls) |-> renderLine(ls[i])]
      IN
      /\ rendered = JoinLines(alone)
      /\ Count(rendered, NL) = Count(markdown, NL)
      /\ Split(rendered) = alone

LineIndependenceWitness ==
    /\ Done
    /\ Len(Split(markdown)) = 2
    /\ Split(markdown)[1] = Fence
    /\ Split(markdown)[2] = <<"*", "*">>
    /\ Split(rendered)[1] = Cyan \o Fence \o Reset
    /\ Split(rendered)[2] = Italic \o Reset

(* C6. Style pairing per line: in every line of the output, every           *)
(* occurrence of a non-Reset style code is followed later on that line by   *)
(* a Reset code.                                                            *)
Paired(line) ==
    \A code \in StyleCodes : \A i \in Occurrences(line, code) :
      \E j \in Occurrences(line, Reset) : j >= i + Len(code)

StylePairing ==
    Done => \A i \in 1..Len(Split(rendered)) : Paired(Split(rendered)[i])

\* the link step has swallowed the Reset of an italic span that stays open
\* until the link's own Reset
StylePairingWitness ==
    /\ Done
    /\ ~Has(markdown, NL)
    /\ Cardinality(Occurrences(rendered, Italic)) = 1
    /\ Cardinality(Occurrences(rendered, Blue)) = 1
    /\ Cardinality(Occurrences(rendered, Reset)) = 1

(* C7. Output never shrinks: Len(RenderMarkdown(s)) >= Len(s).              *)
NeverShrinks == Done => Len(rendered) >= Len(markdown)

\* the line reaches the link substitution and the link pattern matches in it
LinkReplaces(line) ==
    /\ renderLine(line) = renderInlineFormatting(line)
    /\ FindFrom(linkRe, spansRendered(line), 1) # <<>>

NoLinkReplaced(s) == \A i \in 1..Len(Split(s)) : ~LinkReplaces(Split(s)[i])

(* C7, amended. The output is no shorter than the input when the link       *)
(* substitution replaces nothing in any line.                               *)
NeverShrinksWithoutLink ==
    Done => (Len(rendered) >= Len(markdown) \/ ~NoLinkReplaced(markdown))

NeverShrinksWitness ==
    /\ Done
    /\ NoLinkReplaced(markdown)
    /\ Contains(markdown, <<"]", "(">>)
    /\ Has(markdown, ")")
    /\ rendered # markdown
    /\ Len(rendered) >= Len(markdown)

(* C8. Unterminated delimiters stay literal: an opening delimiter followed  *)
(* by a span text and no closing delimiter, and "[t](u" with no ")", are    *)
(* returned unchanged.                                                      *)
UnterminatedLiteral ==
    Done =>
      /\ \A o \in Openers :
           (HasPrefix(markdown, o) /\ IsSpanText(TrimPrefix(markdown, o)))
             => rendered = markdown
      /\ (/\ IsLinkForm(markdown, <<>>)
          /\ IsSpanText(LinkLabel(markdown))
          /\ NoMeta(LinkTarget(markdown, <<>>))
          /\ ~Has(LinkTarget(markdown, <<>>), NL)
          /\ ~HasPrefix(LinkTarget(markdown, <<>>), <<" ">>))
           => rendered = markdown

(* C9. Headings are block-styled and not inline-processed: a line           *)
(* "### " t renders as Yellow Bold t Reset, "## " t as Blue Bold t Reset    *)
(* and "# " t as Magenta Bold t Reset, t verbatim.                          *)
HeadingCase(line, out, prefix, colour) ==
    HasPrefix(line, prefix) =>
      out = colour \o Bold \o SubSeq(line, Len(prefix) + 1, Len(line)) \o Reset

HeadingsVerbatim ==
    Done =>
      \A i \in 1..Len(Split(markdown)) :
        LET line == Split(markdown)[i]
            out  == Split(rendered)[i]
        IN  /\ HeadingCase(line, out, H3, Yellow)
            /\ HeadingCase(line, out, H2, Blue)
            /\ HeadingCase(line, out, H1, Magenta)

HeadingsWitness ==
    /\ Done
    /\ HasPrefix(markdown, H2)
    /\ ~Has(markdown, NL)
    /\ renderInlineFormatting(TrimPrefix(markdown, H2)) # TrimPrefix(markdown, H2)
    /\ rendered = Blue \o Bold \o TrimPrefix(markdown, H2) \o Reset

----------------------------------------------------------------------------
(* C10. Mode selection of the output stage: after a successful provider     *)
(* request with completion r, standard output holds r and a newline when    *)
(* the code flag is set (the explain flag set or not), and                  *)
(* RenderMarkdown(r) and a newline in explain and command-suggestion mode.  *)
Succeeded == pc = "exit" /\ Len(requests) = 1 /\ err = "nil"

ModeSelection ==
    Succeeded =>
      IF codeMode
      THEN stdout = response \o <<NL>>
      ELSE /\ prompt = (IF explainMode THEN "explain" ELSE "command")
           /\ stdout = RenderMarkdown(response) \o <<NL>>

ModeSelectionWitness ==
    /\ Succeeded
    /\ codeMode
    /\ explainMode
    /\ response = <<"*", "*", "a", "*", "*">>
    /\ RenderMarkdown(response) # response
    /\ stdout = response \o <<NL>>

----------------------------------------------------------------------------
(* C11. Request/render ordering: at most one provider request is issued,    *)
(* to the selected provider; standard output receives the completion only   *)
(* after that request has succeeded; when it fails, nothing is written to   *)
(* standard output, the error is written to standard error and the exit     *)
(* status is 1.                                                             *)
RequestFailed == Len(requests) = 1 /\ err # "nil"

RequestRenderOrdering ==
    /\ Len(requests) <= 1
    /\ \A i \in 1..Len(requests) : requests[i] = determineAPIProvider(env).provider
    /\ (requests = <<>>) => stdout \in {<<>>, UsageText, Println(VersionText)}
    /\ (stdout \notin {<<>>, UsageText, Println(VersionText)})
         => (Len(requests) = 1 /\ err = "nil" /\ pc = "exit" /\ exitCode = 0)
    /\ RequestFailed =>
         /\ pc = "exit"
         /\ stdout = <<>>
         /\ stderr = ErrLine(err)
         /\ exitCode = 1

RequestFailedWitness ==
    /\ RequestFailed
    /\ requests = <<"OpenAI">>
    /\ err = "API request failed with status"
    /\ pc = "exit"
    /\ stdout = <<>>
    /\ stderr = ErrLine(err)
    /\ exitCode = 1

----------------------------------------------------------------------------
(* C12. Help and version need no provider: when the first argument is -h    *)
(* or --help the program prints the usage text and exits 0, when it is -v   *)
(* or --version it prints the version line and exits 0, in both cases       *)
(* without a provider request and whatever the environment holds.           *)
HelpAsked == Len(args) >= 1 /\ args[1] \in {"-h", "--help"}

VersionAsked == Len(args) >= 1 /\ args[1] \in {"-v", "--version"}

HelpVersionNeedNoProvider ==
    (pc = "exit") =>
        /\ HelpAsked => (stdout = UsageText /\ exitCode = 0 /\ requests = <<>>)
        /\ VersionAsked =>
             (stdout = Println(VersionText) /\ exitCode = 0 /\ requests = <<>>)

----------------------------------------------------------------------------
(* C13. Inserted escape codes are inert: for a line holding no escape       *)
(* character, every escape character in the output of                       *)
(* renderInlineFormatting is the first character of one complete style      *)
(* code, so no later substitution has split or consumed part of a code      *)
(* that an earlier one inserted.                                            *)
StartsCode(s, i) == \E c \in StyleCodes \cup {Reset} : HasAt(s, i, c)

CodesIntact(s) == \A i \in 1..Len(s) : (s[i] = ESC) => StartsCode(s, i)

InsertedCodesInert ==
    Done =>
      \A k \in 1..Len(Split(markdown)) :
        LET line == Split(markdown)[k]
        IN  ~Has(line, ESC) => CodesIntact(renderInlineFormatting(line))

----------------------------------------------------------------------------
(* C14. Inline spans require non-empty content: a delimiter pair enclosing  *)
(* nothing is not a span, so the lines "****", "____", "**", "__" and a     *)
(* pair of backticks are rendered unchanged.                                *)
EmptySpans ==
    {<<"*", "*", "*", "*">>, <<"_", "_", "_", "_">>, <<"*", "*">>, <<"_", "_">>,
     <<BT, BT>>}

EmptySpansUnchanged ==
    (Done /\ markdown \in EmptySpans) =>
        /\ rendered = markdown
        /\ renderInlineFormatting(markdown) = markdown

----------------------------------------------------------------------------
(* C15. Bullet prefix removal takes exactly two characters: a line that     *)
(* begins with "- " or "* " renders as the green bullet followed by a       *)
(* rendering of the line without its first two characters, so a body that   *)
(* itself begins with "- " or "* " keeps that text.                         *)
Body(line) == SubSeq(line, 3, Len(line))

BulletRemovesTwo ==
    Done =>
      \A k \in 1..Len(Split(markdown)) :
        LET line == Split(markdown)[k]
            out  == Split(rendered)[k]
        IN  (HasPrefix(line, Dash) \/ HasPrefix(line, Star)) =>
              out \in {Green \o BulletDot \o Reset \o Body(line),
                       Green \o BulletDot \o Reset \o renderInlineFormatting(Body(line))}

----------------------------------------------------------------------------
(* C16. Empty completions are errors for every provider: when the request   *)
(* came back with a completion text that is empty or only whitespace, the   *)
(* error is "empty response from API" and nothing is printed; a request     *)
(* that returned without error never left an empty response.                *)
BlankCompletion ==
    /\ Len(requests) = 1
    /\ received.kind = "body"
    /\ Len(received.texts) = 1
    /\ TrimSpace(received.texts[1]) = <<>>

EmptyCompletionIsError ==
    /\ BlankCompletion =>
         /\ err = "empty response from API"
         /\ stdout = <<>>
    /\ (Len(requests) = 1 /\ err = "nil") => response # <<>>

====
